---- MODULE Spec2Model ----
(***************************************************************************)
(* LOD Matrix Excel2TeX (src/app.py): the cell escaper (escape_latex), the *)
(* table builder (process_worksheet), the filename sanitizer and the batch *)
(* loop of main.                                                           *)
(*                                                                         *)
(* A text is a sequence of characters, each character a one-character      *)
(* string; the bullet U+2022 is the token Bullet.  A Python value is a     *)
(* record [kind, repr]: its type and its str().  Python's 0-based index i  *)
(* is the TLA+ index i + 1.                                                *)
(***************************************************************************)
EXTENDS Integers, Sequences, FiniteSets, TLC

VARIABLES
    pc,                 \* where the run is
    cell,               \* EscapeSpec: the raw cell value handed to escape_latex
    result,             \* EscapeSpec: what escape_latex returned
    EXCLUDED_COLUMNS,   \* the global exclusion set (app.py:214)
    ws,                 \* TableSpec: the worksheet handed to process_worksheet
    document,           \* TableSpec: what process_worksheet returned
    wb,                 \* Spec: the loaded workbook, its sheets in order
    i,                  \* Spec: sheets the batch loop has gone through
    latex_files,        \* Spec: filename -> content (app.py:240)
    errors,             \* Spec: the st.error reports of the loop (app.py:254)
    status_log          \* Spec: the status_text.text calls (app.py:243, 257)

vars == <<pc, cell, result, EXCLUDED_COLUMNS, ws, document, wb, i,
          latex_files, errors, status_log>>

(***************************************************************************)
(* Bounds                                                                  *)
(***************************************************************************)
MaxLen == 3
MaxOthers == 1
MaxSheets == 3

(***************************************************************************)
(* Characters and texts                                                    *)
(***************************************************************************)
Bullet == "<U+2022>"

Whitespace == {" ", "\n", "\t"}

Reserved == {"\\", "&", "%", "$", "#", "_", "{", "}", "~", "^"}

Range(s) == {s[k] : k \in 1..Len(s)}

Max(S) == CHOOSE m \in S : \A n \in S : n <= m

\* str.replace(old, new) for a one-character old: left to right, every occurrence.
replace(s, old, new) ==
    LET from[t \in Seq(STRING)] ==
            IF t = <<>> THEN <<>>
            ELSE (IF Head(t) = old THEN new ELSE <<Head(t)>>) \o from[Tail(t)]
    IN  from[s]

\* str.split(sep) for a one-character sep: the pieces between the separators,
\* empty pieces included.
RECURSIVE split(_, _)
split(s, sep) ==
    IF s = <<>> THEN << <<>> >>
    ELSE LET rest == split(Tail(s), sep)
         IN  IF Head(s) = sep THEN << <<>> >> \o rest
             ELSE << <<Head(s)>> \o Head(rest) >> \o Tail(rest)

RECURSIVE lstrip(_)
lstrip(s) ==
    IF s # <<>> /\ Head(s) \in Whitespace THEN lstrip(Tail(s)) ELSE s

RECURSIVE rstrip(_)
rstrip(s) ==
    IF s # <<>> /\ s[Len(s)] \in Whitespace
    THEN rstrip(SubSeq(s, 1, Len(s) - 1)) ELSE s

\* str.strip()
strip(s) == rstrip(lstrip(s))

\* sep.join(items)
RECURSIVE join(_, _)
join(sep, items) ==
    IF items = <<>> THEN <<>>
    ELSE IF Len(items) = 1 THEN items[1]
    ELSE items[1] \o sep \o join(sep, Tail(items))

(***************************************************************************)
(* Python values: what a cell holds                                        *)
(***************************************************************************)
None == [kind |-> "NoneType", repr |-> <<"N", "o", "n", "e">>]

Zero == [kind |-> "int", repr |-> <<"0">>]

Seven == [kind |-> "int", repr |-> <<"7">>]

False == [kind |-> "bool", repr |-> <<"F", "a", "l", "s", "e">>]

True == [kind |-> "bool", repr |-> <<"T", "r", "u", "e">>]

PyStr(t) == [kind |-> "str", repr |-> t]

\* str(v)
str(v) == v.repr

\* Python truthiness: bool(v)
truthy(v) ==
    CASE v.kind = "NoneType" -> FALSE
      [] v.kind = "int" -> v.repr # <<"0">>
      [] v.kind = "bool" -> v.repr = <<"T", "r", "u", "e">>
      [] OTHER -> v.repr # <<>>

(***************************************************************************)
(* escape_latex (app.py:16-44)                                             *)
(***************************************************************************)
textbackslash ==
    <<"\\", "t", "e", "x", "t", "b", "a", "c", "k", "s", "l", "a", "s", "h", "{", "}">>

textasciitilde ==
    <<"\\", "t", "e", "x", "t", "a", "s", "c", "i", "i", "t", "i", "l", "d", "e", "{", "}">>

textasciicircum ==
    <<"\\", "t", "e", "x", "t", "a", "s", "c", "i", "i", "c", "i", "r", "c", "u", "m", "{", "}">>

newline_directive == <<" ", "\\", "n", "e", "w", "l", "i", "n", "e", " ">>

_escape_chars(s) ==
    LET s1 == replace(s, "\\", textbackslash)
        s2 == replace(s1, "&", <<"\\", "&">>)
        s3 == replace(s2, "%", <<"\\", "%">>)
        s4 == replace(s3, "$", <<"\\", "$">>)
        s5 == replace(s4, "#", <<"\\", "#">>)
        s6 == replace(s5, "_", <<"\\", "_">>)
        s7 == replace(s6, "{", <<"\\", "{">>)
        s8 == replace(s7, "}", <<"\\", "}">>)
        s9 == replace(s8, "~", textasciitilde)
    IN  replace(s9, "^", textasciicircum)

\* Lines 38-42: the bullet branch.
bullet_items(text_str) ==
    LET flat == replace(text_str, "\n", <<" ">>)
        parts == split(flat, Bullet)
        kept == SelectSeq(parts, LAMBDA item : strip(item) # <<>>)
    IN  [k \in 1..Len(kept) |-> strip(kept[k])]

\* escape_latex with the newline replacement of line 39 moved before the test
\* of line 38, so that it also runs on texts without a bullet.
escape_latex_newline_always(text) ==
    IF ~truthy(text) THEN <<>>
    ELSE LET text_str == replace(str(text), "\n", <<" ">>)
         IN  IF Bullet \in Range(text_str)
             THEN LET items == bullet_items(text_str)
                  IN  join(newline_directive,
                           [k \in 1..Len(items) |->
                               <<Bullet, " ">> \o _escape_chars(items[k])])
             ELSE _escape_chars(text_str)

\* escape_latex keeping the fragments that are empty after trimming (the
\* filter of line 40 lost).
escape_latex_keep_empty(text) ==
    IF ~truthy(text) THEN <<>>
    ELSE LET text_str == str(text)
         IN  IF Bullet \in Range(text_str)
             THEN LET parts == split(replace(text_str, "\n", <<" ">>), Bullet)
                  IN  join(newline_directive,
                           [k \in 1..Len(parts) |->
                               <<Bullet, " ">> \o _escape_chars(strip(parts[k]))])
             ELSE _escape_chars(text_str)

escape_latex(text) ==
    IF ~truthy(text) THEN <<>>
    ELSE LET text_str == str(text)
         IN  IF Bullet \in Range(text_str)
             THEN LET items == bullet_items(text_str)
                  IN  join(newline_directive,
                           [k \in 1..Len(items) |->
                               <<Bullet, " ">> \o _escape_chars(items[k])])
             ELSE _escape_chars(text_str)

(***************************************************************************)
(* Worksheets as openpyxl hands them over                                  *)
(*                                                                         *)
(* A sheet holds the header cells and the data rows it stores (rows 4 and  *)
(* below), each stored row as wide as its last populated column.  ws[c]    *)
(* creates the cell c when the sheet does not hold it, so max_column is at *)
(* least the column of every cell the code has addressed; iter_rows yields *)
(* every row as wide as max_column, None in the cells that are not stored. *)
(* A chart sheet is listed in wb.sheetnames and is not subscriptable.      *)
(***************************************************************************)
all_letters == <<"A", "B", "C", "D", "E", "F", "G", "H", "I">>

Letters == Range(all_letters)

ord == [A |-> 65, B |-> 66, C |-> 67, D |-> 68, E |-> 69, F |-> 70,
        G |-> 71, H |-> 72, I |-> 73]

\* str.upper() on a column letter
upper(letter) == letter

\* col_letter_to_index counting columns from 1, not from 0.
col_letter_to_index_one_based(letter) == ord[upper(letter)] - ord["A"] + 1

col_letter_to_index(letter) == ord[upper(letter)] - ord["A"]

Addr(col, row) == [col |-> col, row |-> row]

fixed_header_cells == {Addr("A", 1), Addr("A", 2), Addr("B", 2), Addr("C", 2)}

subheader_cells ==
    <<Addr("C", 3), Addr("D", 3), Addr("E", 3), Addr("F", 3), Addr("G", 3),
      Addr("H", 3), Addr("I", 3)>>

HeaderCells == fixed_header_cells \cup Range(subheader_cells)

\* ws[c].value
cell_value(sheet, c) == sheet.header[c]

\* openpyxl's column_index_from_string: A is column 1.
column_index_from_string(letter) == CHOOSE c \in 1..Len(all_letters) : all_letters[c] = letter

\* Worksheet.max_column once the cells `touched` have been addressed.
max_column(sheet, touched) ==
    Max({1} \cup {Len(sheet.rows[k]) : k \in 1..Len(sheet.rows)}
            \cup {column_index_from_string(c.col) : c \in touched})

\* ws.iter_rows(min_row=min_row, values_only=True)
iter_rows(sheet, min_row, touched) ==
    LET width == max_column(sheet, touched)
        first == min_row - 3
    IN  [k \in 1..(Len(sheet.rows) - (first - 1)) |->
            LET stored == sheet.rows[k + first - 1]
            IN  stored \o [c \in 1..(width - Len(stored)) |-> None]]

(***************************************************************************)
(* process_worksheet (app.py:49-159)                                       *)
(***************************************************************************)
col_width_A == 4
col_width_B == 4
col_width_C == 2

COLUMN_WIDTHS ==
    [A |-> [spec |-> "m", cm |-> col_width_A],
     B |-> [spec |-> "m", cm |-> col_width_B],
     C |-> [spec |-> "centering m", cm |-> col_width_C]]

\* final_letters filled in the order the letters leave the exclusion set's
\* complement when it is walked from I down to A.
final_letters_reversed ==
    LET kept == SelectSeq(all_letters, LAMBDA l : l \notin EXCLUDED_COLUMNS)
    IN  [k \in 1..Len(kept) |-> kept[Len(kept) + 1 - k]]

final_letters == SelectSeq(all_letters, LAMBDA l : l \notin EXCLUDED_COLUMNS)

final_indices ==
    LET letters == final_letters
    IN  [k \in 1..Len(letters) |-> col_letter_to_index(letters[k])]

tabular_parts ==
    LET letters == final_letters
    IN  [k \in 1..Len(letters) |->
            IF letters[k] \in {"A", "B"} THEN COLUMN_WIDTHS[letters[k]]
            ELSE COLUMN_WIDTHS["C"]]

span == Cardinality({k \in 3..Len(all_letters) : all_letters[k] \notin EXCLUDED_COLUMNS})

\* A header cell of the table: how many columns it covers and its text.
HCell(n, text) == [span |-> n, text |-> text]

row2_cells(header_model_content) ==
    (IF "A" \notin EXCLUDED_COLUMNS THEN <<HCell(1, <<>>)>> ELSE <<>>)
    \o (IF "B" \notin EXCLUDED_COLUMNS THEN <<HCell(1, <<>>)>> ELSE <<>>)
    \o (IF span > 0 THEN <<HCell(span, header_model_content)>> ELSE <<>>)

row3_cells(header_min_detail, header_excluded, subheaders_raw) ==
    (IF "A" \notin EXCLUDED_COLUMNS THEN <<HCell(1, header_min_detail)>> ELSE <<>>)
    \o (IF "B" \notin EXCLUDED_COLUMNS THEN <<HCell(1, header_excluded)>> ELSE <<>>)
    \o LET later == SelectSeq([k \in 1..7 |-> k + 2],
                              LAMBDA k : all_letters[k] \notin EXCLUDED_COLUMNS)
       IN  [k \in 1..Len(later) |-> HCell(1, subheaders_raw[later[k] - 2])]

cline_start ==
    1 + (IF "A" \notin EXCLUDED_COLUMNS THEN 1 ELSE 0)
      + (IF "B" \notin EXCLUDED_COLUMNS THEN 1 ELSE 0)

cline_end == Len(final_letters)

\* `cell is not None and str(cell).strip()` as a truth value (lines 144, 146)
has_content(v) == v.kind # "NoneType" /\ strip(str(v)) # <<>>

\* Lines 141-149 with the strip() calls lost: any text counts as content.
has_content_only_in_A_no_strip(row) ==
    IF "A" \notin EXCLUDED_COLUMNS
    THEN LET indices == final_indices
             original_filtered ==
                 [k \in 1..Len(indices) |->
                     IF indices[k] < Len(row) THEN row[indices[k] + 1] ELSE None]
             present(v) == v.kind # "NoneType" /\ str(v) # <<>>
         IN  /\ present(original_filtered[1])
             /\ \A k \in 2..Len(original_filtered) : ~present(original_filtered[k])
    ELSE FALSE

\* Lines 141-149
has_content_only_in_A(row) ==
    IF "A" \notin EXCLUDED_COLUMNS
    THEN LET indices == final_indices
             original_filtered ==
                 [k \in 1..Len(indices) |->
                     IF indices[k] < Len(row) THEN row[indices[k] + 1] ELSE None]
             first_col_has_content == has_content(original_filtered[1])
             other_cols_empty ==
                 \A k \in 2..Len(original_filtered) : ~has_content(original_filtered[k])
         IN  first_col_has_content /\ other_cols_empty
    ELSE FALSE

\* Lines 137-138: escaped[i] raises IndexError for an index past the row's end.
row_raises(row) ==
    LET indices == final_indices
    IN  \E k \in 1..Len(indices) : indices[k] >= Len(row)

\* Lines 137-154: one body row, for a row that line 138 can index.  (The
\* local function has TLC evaluate the row once.)
body_row(row) ==
    LET emit[r \in {row}] ==
            LET escaped == [c \in 1..Len(r) |-> escape_latex(r[c])]
                indices == final_indices
                filtered == [k \in 1..Len(indices) |-> escaped[indices[k] + 1]]
            IN  [rowcolor |-> has_content_only_in_A(r), cells |-> filtered]
    IN  emit[row]

NoDocument == [raised |-> TRUE]

process_worksheet(sheet, sheet_name) ==
    IF sheet.kind # "Worksheet" THEN NoDocument      \* line 53: not subscriptable
    ELSE
    LET header_title == escape_latex(cell_value(sheet, Addr("A", 1)))
        header_min_detail == escape_latex(cell_value(sheet, Addr("A", 2)))
        header_excluded == escape_latex(cell_value(sheet, Addr("B", 2)))
        header_model_content == escape_latex(cell_value(sheet, Addr("C", 2)))
        subheaders_raw ==
            [k \in 1..Len(subheader_cells) |->
                escape_latex(cell_value(sheet, subheader_cells[k]))]
        rows == iter_rows(sheet, 4, fixed_header_cells \cup Range(subheader_cells))
    IN  IF \E k \in 1..Len(rows) : row_raises(rows[k]) THEN NoDocument
        ELSE [raised |-> FALSE,
              tabular_parts |-> tabular_parts,
              title_span |-> Len(final_letters),
              header_title |-> header_title,
              row2_cells |-> row2_cells(header_model_content),
              cline_start |-> cline_start,
              cline_end |-> cline_end,
              row3_cells |-> row3_cells(header_min_detail, header_excluded,
                                        subheaders_raw),
              footer_span |-> Len(final_letters),
              body_rows |-> [k \in 1..Len(rows) |-> body_row(rows[k])]]

(***************************************************************************)
(* sanitize_filename (app.py:10-14)                                        *)
(***************************************************************************)
FilenameReserved == {"<", ">", ":", "\"", "/", "\\", "|", "?", "*"}

\* re.sub(r'\s+', '_', s): every run of whitespace becomes one underscore.
RECURSIVE sub_whitespace_runs(_)
sub_whitespace_runs(s) ==
    IF s = <<>> THEN <<>>
    ELSE IF Head(s) \in Whitespace THEN <<"_">> \o sub_whitespace_runs(lstrip(Tail(s)))
    ELSE <<Head(s)>> \o sub_whitespace_runs(Tail(s))

sanitize_filename(name) ==
    LET sanitized == [k \in 1..Len(name) |->
                         IF name[k] \in FilenameReserved THEN "_" ELSE name[k]]
    IN  sub_whitespace_runs(strip(sanitized))

\* f"{sanitize_filename(sheet_name)}.tex" (line 248)
tex_filename(sheet_name) == sanitize_filename(sheet_name) \o <<".", "t", "e", "x">>

\* d[key] = value on a dict
put(d, key, value) ==
    [x \in DOMAIN d \cup {key} |-> IF x = key THEN value ELSE d[x]]

(***************************************************************************)
(* The inputs                                                              *)
(***************************************************************************)
Chars == Reserved \cup {"a", " ", "\n", Bullet}

Texts == UNION {[1..n -> Chars] : n \in 0..MaxLen}

CellValues == {None, Zero, Seven, False, True} \cup {PyStr(t) : t \in Texts}

\* A populated data cell of column c: a text naming its column, or a blank.
Content(c) == PyStr(<<all_letters[c], "&">>)

Blank == PyStr(<<" ">>)

\* The stored row whose populated columns are P, those of B holding a blank.
stored_row(P, B) ==
    [c \in 1..(IF P = {} THEN 0 ELSE Max(P)) |->
        IF c \notin P THEN None ELSE IF c \in B THEN Blank ELSE Content(c)]

\* Column A populated or not, and at most MaxOthers other populated columns.
StoredRows ==
    UNION {{stored_row(P, B) : B \in SUBSET P} :
              P \in {Q \in SUBSET (1..Len(all_letters)) : Cardinality(Q \ {1}) <= MaxOthers}}

EmptyHeader == [c \in HeaderCells |-> None]

FullHeader == [c \in HeaderCells |-> PyStr(<<c.col, "_">>)]

Worksheet(header, rows) == [kind |-> "Worksheet", header |-> header, rows |-> rows]

Chartsheet == [kind |-> "Chartsheet", header |-> EmptyHeader, rows |-> <<>>]

\* No worksheet at hand.
NoWorksheet == [kind |-> "none"]

\* No data row, every stored row alone under an empty header, and a few
\* sheets with a populated header.
Worksheets ==
    {Worksheet(EmptyHeader, rs) : rs \in {<<>>} \cup {<<r>> : r \in StoredRows}}
    \cup {Worksheet(FullHeader, rs) :
              rs \in {<<>>, <<stored_row({1}, {})>>,
                      <<stored_row({1}, {}), stored_row({1, 6}, {6})>>,
                      <<stored_row({2, 7}, {}), stored_row({1, 6, 9}, {})>>}}

SheetNames == {<<"a", " ", "b">>, <<"a", "<", "b">>, <<"c">>, <<"d">>}

SheetBodies == {Chartsheet, Worksheet(FullHeader, <<stored_row({1}, {})>>)}

\* A workbook: its sheets in order, no two under one name.
Workbooks ==
    {w \in UNION {[1..n -> [name : SheetNames, sheet : SheetBodies]] : n \in 1..MaxSheets} :
        \A a, b \in 1..Len(w) : a # b => w[a].name # w[b].name}

DefaultExcluded == {"B", "C", "D", "E"}

(***************************************************************************)
(* EscapeSpec: escape_latex applied to one cell value                      *)
(***************************************************************************)
EscapeInit ==
    /\ pc = "escape"
    /\ cell \in CellValues
    /\ result = <<>>
    /\ EXCLUDED_COLUMNS = DefaultExcluded
    /\ ws = NoWorksheet
    /\ document = NoDocument
    /\ wb = <<>>
    /\ i = 0
    /\ latex_files = <<>>
    /\ errors = <<>>
    /\ status_log = <<>>

EscapeCell ==
    /\ pc = "escape"
    /\ result' = escape_latex(cell)
    /\ pc' = "escaped"
    /\ UNCHANGED <<cell, EXCLUDED_COLUMNS, ws, document, wb, i, latex_files,
                   errors, status_log>>

EscapeNext == EscapeCell

EscapeSpec == EscapeInit /\ [][EscapeNext]_vars

(***************************************************************************)
(* TableSpec: process_worksheet applied to one worksheet                   *)
(***************************************************************************)
TableInit ==
    /\ pc = "table"
    /\ EXCLUDED_COLUMNS \in SUBSET Letters
    /\ ws = NoWorksheet
    /\ document = NoDocument
    /\ cell = None
    /\ result = <<>>
    /\ wb = <<>>
    /\ i = 0
    /\ latex_files = <<>>
    /\ errors = <<>>
    /\ status_log = <<>>

\* process_worksheet is called with a worksheet.
BuildTable ==
    /\ pc = "table"
    /\ \E sheet \in Worksheets :
          /\ ws' = sheet
          /\ document' = process_worksheet(sheet, <<>>)
    /\ pc' = "built"
    /\ UNCHANGED <<cell, result, EXCLUDED_COLUMNS, wb, i, latex_files,
                   errors, status_log>>

TableNext == BuildTable

TableSpec == TableInit /\ [][TableNext]_vars

(***************************************************************************)
(* Spec: main (app.py:170-323), from the upload to the results             *)
(***************************************************************************)
Init ==
    /\ pc = "start"
    /\ EXCLUDED_COLUMNS \in {DefaultExcluded, {}}
    /\ wb = <<>>
    /\ i = 0
    /\ latex_files = <<>>
    /\ errors = <<>>
    /\ status_log = <<>>
    /\ cell = None
    /\ result = <<>>
    /\ ws = NoWorksheet
    /\ document = NoDocument

\* Line 229: load_workbook returns the uploaded workbook.
LoadWorkbook ==
    /\ pc = "start"
    /\ \E w \in Workbooks : wb' = w
    /\ pc' = "loaded"
    /\ UNCHANGED <<cell, result, EXCLUDED_COLUMNS, ws, document, i, latex_files,
                   errors, status_log>>

\* Lines 318-320: load_workbook raises; the run reports it and ends.
LoadFails ==
    /\ pc = "start"
    /\ pc' = "load_error"
    /\ errors' = Append(errors, <<"Error loading file">>)
    /\ UNCHANGED <<cell, result, EXCLUDED_COLUMNS, ws, document, wb, i,
                   latex_files, status_log>>

\* Lines 236-240: the button is pressed.
ClickGenerate ==
    /\ pc = "loaded"
    /\ latex_files' = <<>>
    /\ i' = 0
    /\ pc' = "loop"
    /\ UNCHANGED <<cell, result, EXCLUDED_COLUMNS, ws, document, wb, errors,
                   status_log>>

\* One turn of the loop of lines 242-255 that leaves the loop at an
\* exception (break where the code has continue).
ProcessSheetBreak ==
    /\ pc = "loop"
    /\ i < Len(wb)
    /\ LET sheet_name == wb[i + 1].name
           latex_content == process_worksheet(wb[i + 1].sheet, sheet_name)
       IN  /\ status_log' = Append(status_log, sheet_name)
           /\ IF latex_content.raised
              THEN /\ errors' = Append(errors, sheet_name)
                   /\ i' = Len(wb)
                   /\ UNCHANGED latex_files
              ELSE /\ latex_files' = put(latex_files, tex_filename(sheet_name),
                                         latex_content)
                   /\ i' = i + 1
                   /\ UNCHANGED errors
    /\ UNCHANGED <<pc, cell, result, EXCLUDED_COLUMNS, ws, document, wb>>

\* One turn of the loop of lines 242-255.
ProcessSheet ==
    /\ pc = "loop"
    /\ i < Len(wb)
    /\ LET sheet_name == wb[i + 1].name
           latex_content == process_worksheet(wb[i + 1].sheet, sheet_name)
       IN  /\ status_log' = Append(status_log, sheet_name)
           /\ IF latex_content.raised
              THEN /\ errors' = Append(errors, sheet_name)
                   /\ UNCHANGED latex_files
              ELSE /\ latex_files' = put(latex_files, tex_filename(sheet_name),
                                         latex_content)
                   /\ UNCHANGED errors
           /\ i' = i + 1
    /\ UNCHANGED <<pc, cell, result, EXCLUDED_COLUMNS, ws, document, wb>>

ProcessingComplete == <<"Processing complete!">>

\* Line 257: the loop is over.
FinishLoop ==
    /\ pc = "loop"
    /\ i = Len(wb)
    /\ status_log' = Append(status_log, ProcessingComplete)
    /\ pc' = "complete"
    /\ UNCHANGED <<cell, result, EXCLUDED_COLUMNS, ws, document, wb, i,
                   latex_files, errors>>

\* Lines 259-316: the documents are shown, or the empty result is reported.
ShowResults ==
    /\ pc = "complete"
    /\ pc' = IF DOMAIN latex_files # {} THEN "success" ELSE "no_files"
    /\ UNCHANGED <<cell, result, EXCLUDED_COLUMNS, ws, document, wb, i,
                   latex_files, errors, status_log>>

Next ==
    \/ LoadWorkbook
    \/ LoadFails
    \/ ClickGenerate
    \/ ProcessSheet
    \/ FinishLoop
    \/ ShowResults

Spec == Init /\ [][Next]_vars

\* The loop of lines 242-257 is straight-line code: once entered it runs on.
FairSpec == Spec /\ WF_vars(ProcessSheet) /\ WF_vars(FinishLoop)

(***************************************************************************)
(* Properties of the cell escaper (EscapeSpec)                             *)
(***************************************************************************)
\* The escape sequence the specification designates for a reserved character.
Designated(c) ==
    CASE c = "\\" -> textbackslash
      [] c = "~" -> textasciitilde
      [] c = "^" -> textasciicircum
      [] OTHER -> <<"\\", c>>

\* The pieces of a sequence of texts, one after the other, sep between them.
Concat(pieces, sep) ==
    LET upto[n \in 0..Len(pieces)] ==
            IF n = 0 THEN <<>>
            ELSE upto[n - 1] \o (IF n > 1 THEN sep ELSE <<>>) \o pieces[n]
    IN  upto[Len(pieces)]

\* s with each reserved character replaced by its designated sequence and
\* every other position kept.
EscapedPositionwise(s) ==
    Concat([k \in 1..Len(s) |-> IF s[k] \in Reserved THEN Designated(s[k]) ELSE <<s[k]>>],
           <<>>)

Count(s, c) == Cardinality({k \in 1..Len(s) : s[k] = c})

IsText(v) == v.kind = "str"

\* C1: for a text without a bullet, escape_latex returns the text with each
\* reserved character replaced by its designated escape sequence, once, and
\* nothing else changed: the characters the backslash substitution brings in
\* are not escaped again.
C1_ReservedEscapedOnce ==
    (pc = "escaped" /\ IsText(cell) /\ Bullet \notin Range(str(cell)))
        => result = EscapedPositionwise(str(cell))

\* C2: a cell value that is numeric zero or a boolean is present: escape_latex
\* returns its escaped text representation, which is not empty.
C2_FalsyValuesEmitted ==
    (pc = "escaped" /\ cell.kind \in {"int", "bool"})
        => (result # <<>> /\ result = _escape_chars(str(cell)))

\* C8 as stated: a text without any of the ten reserved characters comes back
\* unchanged.
C8_NoReservedUnchanged ==
    (pc = "escaped" /\ IsText(cell) /\ Range(str(cell)) \cap Reserved = {})
        => result = str(cell)

\* C8 as amended: a text without any of the ten reserved characters and
\* without the bullet delimiter comes back unchanged.
C8_NoReservedNoBulletUnchanged ==
    (pc = "escaped" /\ IsText(cell) /\ Range(str(cell)) \cap Reserved = {}
        /\ Bullet \notin Range(str(cell)))
        => result = str(cell)

\* C8's case: a text of letters, spaces and newlines has been escaped.
C8_Witness ==
    /\ pc = "escaped"
    /\ IsText(cell)
    /\ Range(str(cell)) = {"a", " ", "\n"}
    /\ result = str(cell)

\* The text between positions a and b, both excluded, without the whitespace
\* at its ends.
Trimmed(s, a, b) ==
    LET inner == {k \in (a + 1)..(b - 1) : s[k] \notin Whitespace}
    IN  IF inner = {} THEN <<>>
        ELSE SubSeq(s, CHOOSE k \in inner : \A m \in inner : k <= m, Max(inner))

\* The fragments of a bullet-delimited text: newlines read as spaces, the
\* stretches between the bullets (and the text's ends) trimmed, the empty
\* ones left out, in the order of the text.
Fragments(s) ==
    LET flat == [k \in 1..Len(s) |-> IF s[k] = "\n" THEN " " ELSE s[k]]
        cuts == SelectSeq([p \in 1..(Len(s) + 2) |-> p - 1],
                          LAMBDA p : p = 0 \/ p = Len(s) + 1 \/ flat[p] = Bullet)
        between == [j \in 1..(Len(cuts) - 1) |-> Trimmed(flat, cuts[j], cuts[j + 1])]
    IN  SelectSeq(between, LAMBDA f : f # <<>>)

Retained == {c \in 1..Len(all_letters) : all_letters[c] \notin EXCLUDED_COLUMNS}

\* The k-th retained column from the left.
NthRetained(k) == CHOOSE c \in Retained : Cardinality({d \in Retained : d < c}) = k - 1

\* What row j of the worksheet (row j + 3 of the spreadsheet) holds in column
\* c: None where it stores no cell.
StoredValue(j, c) == IF c <= Len(ws.rows[j]) THEN ws.rows[j][c] ELSE None

HasNonWhitespace(v) ==
    v.kind # "NoneType" /\ \E k \in 1..Len(str(v)) : str(v)[k] \notin Whitespace

Built == pc = "built" /\ ~document.raised

C5_MissingCellsEmpty ==
    pc = "built" =>
        /\ ~document.raised
        /\ Len(document.body_rows) = Len(ws.rows)
        /\ LET letters == final_letters
           IN  \A j \in 1..Len(ws.rows) :
                  /\ Len(document.body_rows[j].cells) = Len(letters)
                  /\ \A k \in 1..Len(letters) :
                        column_index_from_string(letters[k]) > Len(ws.rows[j])
                            => document.body_rows[j].cells[k] = <<>>
        /\ (ws.header = EmptyHeader =>
               /\ document.header_title = <<>>
               /\ \A k \in 1..Len(document.row2_cells) : document.row2_cells[k].text = <<>>
               /\ \A k \in 1..Len(document.row3_cells) : document.row3_cells[k].text = <<>>)

\* C5's case: a worksheet with an empty header and a data row that ends
\* before the last retained column has been converted.
C5_Witness ==
    /\ Built
    /\ ws.header = EmptyHeader
    /\ Len(ws.rows) = 1
    /\ Len(ws.rows[1]) >= 1
    /\ Retained # {}
    /\ Len(ws.rows[1]) < Max(Retained \cup {0})

\* C7: the retained letters are the letters A..I outside the exclusion set in
\* alphabetic order ({B, C, D, E} leaves A, F, G, H, I), and every body row
\* holds the escaped values of exactly those columns in that order.
C7_RetainedInOrder ==
    Built =>
        LET letters == final_letters
            column == [k \in 1..Len(letters) |-> column_index_from_string(letters[k])]
        IN  /\ Range(letters) = Letters \ EXCLUDED_COLUMNS
            /\ \A k \in 1..(Len(letters) - 1) : column[k] < column[k + 1]
            /\ (EXCLUDED_COLUMNS = {"B", "C", "D", "E"}
                   => letters = <<"A", "F", "G", "H", "I">>)
            /\ Len(document.body_rows) = Len(ws.rows)
            /\ \A j \in 1..Len(ws.rows) :
                  /\ Len(document.body_rows[j].cells) = Len(letters)
                  /\ \A k \in 1..Len(letters) :
                        document.body_rows[j].cells[k]
                            = escape_latex(StoredValue(j, column[k]))

\* C7's case: with B, C, D, E excluded, a row populated in two retained
\* columns has been emitted.
C7_Witness ==
    /\ Built
    /\ EXCLUDED_COLUMNS = {"B", "C", "D", "E"}
    /\ \E j \in 1..Len(ws.rows) :
          /\ document.body_rows[j].cells[1] = <<"A", "\\", "&">>
          /\ document.body_rows[j].cells[5] = <<"I", "\\", "&">>

\* The columns a header row covers.
Covered(cells) ==
    LET upto[n \in 0..Len(cells)] == IF n = 0 THEN 0 ELSE upto[n - 1] + cells[n].span
    IN  upto[Len(cells)]

\* C10: the table is column-consistent: one width entry per retained column
\* (narrow for A and B, centred for the others), title and footer spans, the
\* header rows and every body row as wide as the retained columns, at least
\* one column, and a partial rule that does not end before it starts.
C10_ColumnConsistent ==
    Built =>
        LET n == Cardinality(Retained)
        IN  /\ Len(document.tabular_parts) = n
            /\ \A k \in 1..Len(document.tabular_parts) :
                  document.tabular_parts[k].spec
                      = (IF NthRetained(k) <= 2 THEN "m" ELSE "centering m")
            /\ document.title_span = n
            /\ document.footer_span = n
            /\ Covered(document.row2_cells) = n
            /\ Covered(document.row3_cells) = n
            /\ \A j \in 1..Len(document.body_rows) : Len(document.body_rows[j].cells) = n
            /\ n >= 1
            /\ document.cline_start <= document.cline_end

(***************************************************************************)
(* Properties of the batch loop (Spec, FairSpec)                           *)
(***************************************************************************)
\* The sheets among the first n whose processing raises: the chart sheets.
Raising(n) == {k \in 1..n : wb[k].sheet.kind # "Worksheet"}

\* The names of the sheets of S in workbook order.
NamesOf(S) ==
    LET picked == SelectSeq([k \in 1..Len(wb) |-> k], LAMBDA k : k \in S)
    IN  [k \in 1..Len(picked) |-> wb[picked[k]].name]

DistinctFilenames ==
    \A a, b \in 1..Len(wb) :
        a # b => tex_filename(wb[a].name) # tex_filename(wb[b].name)

LoopOver == pc \in {"complete", "success", "no_files"}

BatchAccounts ==
    /\ pc = "loop" =>
          /\ i <= Len(wb)
          /\ status_log = NamesOf(1..i)
          /\ errors = NamesOf(Raising(i))
    /\ LoopOver =>
          /\ status_log = Append(NamesOf(1..Len(wb)), ProcessingComplete)
          /\ errors = NamesOf(Raising(Len(wb)))
          /\ Len(errors) = Cardinality(Raising(Len(wb)))
          /\ (DistinctFilenames =>
                 Cardinality(DOMAIN latex_files)
                     = Len(wb) - Cardinality(Raising(Len(wb))))

\* C4: the loop goes through every sheet once, in workbook order; a sheet
\* that raises is reported once and the loop goes on: of N sheets with
\* different filenames of which k raise, N - k documents and k reports are
\* left, and the loop always gets to 'Processing complete'.
C4_BatchContinues == []BatchAccounts /\ ((pc = "loop") ~> (pc = "complete"))

\* C4's case: three sheets, the second raising, leave two documents and one
\* report.
C4_Witness ==
    /\ pc = "complete"
    /\ Len(wb) = 3
    /\ Raising(3) = {2}
    /\ DistinctFilenames
    /\ Cardinality(DOMAIN latex_files) = 2
    /\ Len(errors) = 1

\* C6: after the loop the mapping holds one document per sheet that was
\* processed without an error: no document has been overwritten by that of
\* another sheet.
C6_OneDocumentPerSheet ==
    LoopOver =>
        Cardinality(DOMAIN latex_files) = Len(wb) - Cardinality(Raising(Len(wb)))

====
